---- MODULE Spec2Model ----
(***************************************************************************)
(* Model of the smart-doorbell backend: the camera controller and its      *)
(* lock (Camera_Controller.py), the home/away mode handlers (app.py) and   *)
(* the notification fan-out (Notification_Service.py).                     *)
(***************************************************************************)
EXTENDS Integers, Sequences, FiniteSets, TLC

\* ------------------------------------------------------------------ bounds
NumThreads == 2
NumReqs == 1
MaxRows == 1
MaxTokens == 1
MaxEvents == 2
MaxLogs == 2
MaxRetryCount == 2
MaxPhotos == 2
MaxSessions == 1

\* ------------------------------------------------------ program constants
\* determine_home_mode: wifi_strength > -60 is home, < -80 is away.
NearThreshold == -60
FarThreshold == -80

\* ------------------------------------------------------------- vocabulary
Threads == 1..NumThreads
NoThread == 0
TriggerSources == {"doorbell", "manual"}
ReadOutcomes == {"frame", "noframe", "raise"}
WriteOutcomes == {"ok", "false", "raise"}
Qualities == {95, 70}

\* Requests to POST /api/system/status that may be in flight together.
Reqs == 1..NumReqs
\* wifi_strength values around the two thresholds.
Signals == {FarThreshold - 1, FarThreshold, NearThreshold, NearThreshold + 1}
\* A status body: not a JSON object, an object without wifi_strength, or
\* an object with it.
StatusBodies ==
    {[kind |-> "none", wifi |-> 0], [kind |-> "nofield", wifi |-> 0]}
        \cup {[kind |-> "field", wifi |-> w] : w \in Signals}

Channels == {"push", "email", "sms"}
\* The order in which send_*_alert goes through the channels.
ChannelOrder == <<"push", "email", "sms">>
\* What a channel's delivery call does: succeeds, reports an error, raises.
Outcomes == {"ok", "error", "raise"}
\* Times of day in minutes since midnight: 07:00, 12:00, 23:30.
Minutes(h, m) == h * 60 + m
Times == {Minutes(7, 0), Minutes(12, 0), Minutes(23, 30)}
\* The quiet hours of the code (22:00 to 07:00, across midnight) and an
\* interval within one day.
DefaultQuietHours == [start |-> Minutes(22, 0), end |-> Minutes(7, 0)]
QuietHourSettings == {DefaultQuietHours, [start |-> Minutes(7, 0), end |-> Minutes(12, 0)]}

VARIABLES
    \* CameraController (Camera_Controller.py)
    is_initialized, camera_opened, camera_lock, photo_quality, pc,
    \* CameraModule (Notification_Service.py)
    cm_opened,
    \* the capture_photo call that returned last: who ran it, what it returned,
    \* whether a device was available to it and whether its imwrite succeeded
    last_capture,
    \* system_state['home_mode'] (app.py) and the status requests in flight:
    \* where each is, its body and the home_mode it determined
    home_mode, st_pc, st_body, st_home,
    \* the last assignment to system_state['home_mode']: who made it, from
    \* which body, the value that was to be stored, and the writer and value
    \* it replaced
    last_write,
    \* the last assignment to system_state['last_activity']: who made it
    last_activity,
    \* rows in the tables the handlers of app.py write
    db_rows,
    \* NotificationService: preferences, provider configuration, the last
    \* send_*_alert call, and the notification_logs table
    user_preferences, notif_config, last_dispatch, notification_logs,
    \* the recording request in flight (app.py), the rows committed through
    \* db.session (MotionEvent and DoorbellEvent, Photo), the `events` table
    \* of smart_doorbell.db, the user_sessions table, and what the last query
    \* of a model class (db/model.py) returned
    rq, event_rows, photo_rows, events, sessions, last_query,
    \* AuthService (auth_service.py): the row of one user in the users table,
    \* the time, and where each thread is in authenticate_user
    user, clock, auth

camVars == <<is_initialized, camera_opened, camera_lock, photo_quality, pc,
             cm_opened, last_capture>>
modeVars == <<home_mode, st_pc, st_body, st_home, last_write, last_activity>>
notifVars == <<user_preferences, notif_config, last_dispatch, notification_logs>>

storeVars == <<rq, event_rows, photo_rows, events, sessions, last_query>>
authVars == <<user, clock, auth>>

vars == <<camVars, modeVars, db_rows, notifVars, storeVars, authVars>>

\* ------------------------------------------------- CameraController: lock
\* threading.Lock: `with self.camera_lock` enters only when nobody holds it.
CanAcquireNoCheck(t) == TRUE
CanAcquire(t) == camera_lock = NoThread

\* The threads that are inside a `with self.camera_lock:` block.
InCritical == {t \in Threads : pc[t] \in {"cap_in", "adj_in", "gen_in", "gen_yield"}}

\* ------------------------------------------- CameraController: the result
\* is_initialized and camera.isOpened()
DeviceAvailable == is_initialized /\ camera_opened

\* What capture_photo returns: "file" (the filename) or "none" (None).
\* dev: a device is available; rd: what camera.read() did; wr: what
\* cv2.imwrite did on the path taken.
CapturePhotoReturn(dev, rd, wr) ==
    IF dev
    THEN IF rd = "frame" /\ wr = "ok" THEN "file" ELSE "none"
    ELSE "file"

\* Whether the call wrote its file. create_test_image swallows an imwrite
\* that raises and ignores one that returns False.
CapturePhotoWrote(dev, rd, wr) ==
    IF dev THEN rd = "frame" /\ wr = "ok" ELSE wr = "ok"

NoCapture == [by |-> "nobody", state |-> "unset", src |-> "manual",
              nodev |-> FALSE, wrote |-> FALSE]

\* --------------------------------------------------------- initial state
CameraStart ==
    /\ is_initialized \in BOOLEAN
    /\ camera_opened = is_initialized
    /\ camera_lock = NoThread
    /\ photo_quality = 95
    /\ pc = [t \in Threads |-> "idle"]
    /\ cm_opened \in BOOLEAN
    /\ last_capture = NoCapture

\* ------------------------------------------ CameraController.capture_photo
capture_photo(t) ==
    /\ pc[t] = "idle"
    /\ pc' = [pc EXCEPT ![t] = "cap_wait"]
    /\ UNCHANGED <<is_initialized, camera_opened, camera_lock, photo_quality,
                   cm_opened, last_capture>>
    /\ UNCHANGED <<modeVars, db_rows, notifVars, storeVars, authVars>>

capture_photo_enter(t) ==
    /\ pc[t] = "cap_wait"
    /\ CanAcquire(t)
    /\ camera_lock' = t
    /\ pc' = [pc EXCEPT ![t] = "cap_in"]
    /\ UNCHANGED <<is_initialized, camera_opened, photo_quality, cm_opened, last_capture>>
    /\ UNCHANGED <<modeVars, db_rows, notifVars, storeVars, authVars>>

capture_photo_body(t) ==
    /\ pc[t] = "cap_in"
    /\ \E src \in TriggerSources, rd \in ReadOutcomes, wr \in WriteOutcomes :
         LET dev == DeviceAvailable
         IN last_capture' =
                [by |-> "controller", state |-> CapturePhotoReturn(dev, rd, wr),
                 src |-> src, nodev |-> ~dev, wrote |-> CapturePhotoWrote(dev, rd, wr)]
    /\ camera_lock' = NoThread
    /\ pc' = [pc EXCEPT ![t] = "idle"]
    /\ UNCHANGED <<is_initialized, camera_opened, photo_quality, cm_opened>>
    /\ UNCHANGED <<modeVars, db_rows, notifVars, storeVars, authVars>>

\* --------------------------------- CameraController.adjust_camera_settings
adjust_camera_settings(t) ==
    /\ pc[t] = "idle"
    /\ pc' = [pc EXCEPT ![t] = IF is_initialized THEN "adj_wait" ELSE "idle"]
    /\ UNCHANGED <<is_initialized, camera_opened, camera_lock, photo_quality,
                   cm_opened, last_capture>>
    /\ UNCHANGED <<modeVars, db_rows, notifVars, storeVars, authVars>>

adjust_camera_settings_enter(t) ==
    /\ pc[t] = "adj_wait"
    /\ CanAcquire(t)
    /\ camera_lock' = t
    /\ pc' = [pc EXCEPT ![t] = "adj_in"]
    /\ UNCHANGED <<is_initialized, camera_opened, photo_quality, cm_opened, last_capture>>
    /\ UNCHANGED <<modeVars, db_rows, notifVars, storeVars, authVars>>

\* The settings are applied, or one of them raises and the block is left.
adjust_camera_settings_body(t) ==
    /\ pc[t] = "adj_in"
    /\ \E q \in Qualities : photo_quality' = q
    /\ camera_lock' = NoThread
    /\ pc' = [pc EXCEPT ![t] = "idle"]
    /\ UNCHANGED <<is_initialized, camera_opened, cm_opened, last_capture>>
    /\ UNCHANGED <<modeVars, db_rows, notifVars, storeVars, authVars>>

\* ------------------------------------- CameraController.start_video_stream
start_video_stream(t) ==
    /\ pc[t] = "idle"
    /\ pc' = [pc EXCEPT ![t] = IF is_initialized THEN "gen_wait" ELSE "idle"]
    /\ UNCHANGED <<is_initialized, camera_opened, camera_lock, photo_quality,
                   cm_opened, last_capture>>
    /\ UNCHANGED <<modeVars, db_rows, notifVars, storeVars, authVars>>

generate_frames_enter(t) ==
    /\ pc[t] = "gen_wait"
    /\ CanAcquire(t)
    /\ camera_lock' = t
    /\ pc' = [pc EXCEPT ![t] = "gen_in"]
    /\ UNCHANGED <<is_initialized, camera_opened, photo_quality, cm_opened, last_capture>>
    /\ UNCHANGED <<modeVars, db_rows, notifVars, storeVars, authVars>>

\* read, resize, encode: a frame is yielded inside the with block, anything
\* else leaves the block and loops.
generate_frames_step(t) ==
    /\ pc[t] = "gen_in"
    /\ \E rd \in {"frame", "noframe"} :
         IF camera_opened /\ rd = "frame"
         THEN /\ pc' = [pc EXCEPT ![t] = "gen_yield"]
              /\ UNCHANGED camera_lock
         ELSE /\ pc' = [pc EXCEPT ![t] = "gen_wait"]
              /\ camera_lock' = NoThread
    /\ UNCHANGED <<is_initialized, camera_opened, photo_quality, cm_opened, last_capture>>
    /\ UNCHANGED <<modeVars, db_rows, notifVars, storeVars, authVars>>

\* The consumer asks for the next frame (the block is left, the loop goes
\* on) or closes the generator (GeneratorExit leaves the block).
generate_frames_resume(t) ==
    /\ pc[t] = "gen_yield"
    /\ \E nxt \in {"gen_wait", "idle"} : pc' = [pc EXCEPT ![t] = nxt]
    /\ camera_lock' = NoThread
    /\ UNCHANGED <<is_initialized, camera_opened, photo_quality, cm_opened, last_capture>>
    /\ UNCHANGED <<modeVars, db_rows, notifVars, storeVars, authVars>>

\* ------------------------------------------------ CameraController.cleanup
cleanup ==
    /\ camera_opened
    /\ camera_opened' = FALSE
    /\ UNCHANGED <<is_initialized, camera_lock, photo_quality, pc, cm_opened, last_capture>>
    /\ UNCHANGED <<modeVars, db_rows, notifVars, storeVars, authVars>>

\* ---------------------------------------------- CameraModule.capture_photo
\* "file" or "none"; the value cv2.imwrite returns is not looked at.
CameraModuleReturn(opened, rd, wr) ==
    IF ~opened THEN "none"
    ELSE IF rd # "frame" THEN "none"
    ELSE IF wr = "raise" THEN "none" ELSE "file"

camera_module_capture_photo ==
    /\ \E rd \in ReadOutcomes, wr \in WriteOutcomes :
         last_capture' =
             [by |-> "module", state |-> CameraModuleReturn(cm_opened, rd, wr),
              src |-> "visitor", nodev |-> ~cm_opened,
              wrote |-> cm_opened /\ rd = "frame" /\ wr = "ok"]
    /\ UNCHANGED <<is_initialized, camera_opened, camera_lock, photo_quality, pc, cm_opened>>
    /\ UNCHANGED <<modeVars, db_rows, notifVars, storeVars, authVars>>

release_camera ==
    /\ cm_opened
    /\ cm_opened' = FALSE
    /\ UNCHANGED <<is_initialized, camera_opened, camera_lock, photo_quality, pc, last_capture>>
    /\ UNCHANGED <<modeVars, db_rows, notifVars, storeVars, authVars>>

\* ================================================== home/away mode (app.py)
\* data.get('wifi_strength', 0)
WifiStrengthWeakDefault(body) ==
    IF body.kind = "field" THEN body.wifi ELSE FarThreshold - 1
WifiStrength(body) == IF body.kind = "field" THEN body.wifi ELSE 0

\* determine_home_mode(device_data), with `current` what system_state holds
\* when it is read. A body that is no object raises inside the try and the
\* handler returns the current state.
DetermineHomeModeSwapped(body, current) ==
    IF body.kind = "none" THEN current
    ELSE IF WifiStrength(body) > NearThreshold THEN FALSE
    ELSE IF WifiStrength(body) < FarThreshold THEN TRUE
    ELSE current
DetermineHomeMode(body, current) ==
    IF body.kind = "none" THEN current
    ELSE IF WifiStrength(body) > NearThreshold THEN TRUE
    ELSE IF WifiStrength(body) < FarThreshold THEN FALSE
    ELSE current

\* The ambiguous band: an object whose wifi_strength is between the two
\* thresholds, both included.
InMiddleBand(body) ==
    /\ body.kind # "none"
    /\ WifiStrength(body) >= FarThreshold
    /\ WifiStrength(body) <= NearThreshold

NoBody == [kind |-> "none", wifi |-> 0]
\* The writer of the values system_state is created with: no request.
NoReq == 0
InitialWrite == [by |-> "init", req |-> NoReq, body |-> NoBody, val |-> TRUE,
                 prev_by |-> "none", prev_val |-> TRUE]

ModeStart ==
    /\ home_mode = TRUE
    /\ st_pc = [r \in Reqs |-> "idle"]
    /\ st_body = [r \in Reqs |-> NoBody]
    /\ st_home = [r \in Reqs |-> TRUE]
    /\ last_write = InitialWrite
    /\ last_activity = [by |-> "init", req |-> NoReq]

\* POST /api/system/status, up to `home_mode = determine_home_mode(data)`:
\* system_state['last_activity'] is assigned first.
system_status_post(r) ==
    /\ st_pc[r] = "idle"
    /\ last_activity' = [by |-> "signal", req |-> r]
    /\ \E body \in StatusBodies :
         /\ st_body' = [st_body EXCEPT ![r] = body]
         /\ st_home' = [st_home EXCEPT ![r] = DetermineHomeMode(body, home_mode)]
    /\ st_pc' = [st_pc EXCEPT ![r] = "assign"]
    /\ UNCHANGED <<home_mode, last_write, db_rows, camVars, notifVars, storeVars, authVars>>

\* system_state['home_mode'] = home_mode, and the response.
system_status_assign(r) ==
    /\ st_pc[r] = "assign"
    /\ home_mode' = st_home[r]
    /\ last_write' = [by |-> "signal", req |-> r, body |-> st_body[r],
                      val |-> st_home[r],
                      prev_by |-> last_write.by, prev_val |-> home_mode]
    /\ st_pc' = [st_pc EXCEPT ![r] = "idle"]
    /\ st_body' = [st_body EXCEPT ![r] = NoBody]
    /\ st_home' = [st_home EXCEPT ![r] = TRUE]
    /\ UNCHANGED <<last_activity, db_rows, camVars, notifVars, storeVars, authVars>>

\* GET /api/system/status and GET /api/config/get read system_state.
system_status_get == UNCHANGED vars
get_config == UNCHANGED vars

\* POST /api/system/home-mode: data.get('home_mode', True) is stored, and
\* nothing else of system_state. A body that is no object raises before the
\* assignment.
SetHomeModeKeep(body_ok, v, current) == current
SetHomeModeValue(body_ok, v, current) == IF body_ok THEN v ELSE current

set_home_mode ==
    /\ \E body_ok \in BOOLEAN, v \in BOOLEAN :
         /\ home_mode' = SetHomeModeValue(body_ok, v, home_mode)
         /\ last_write' = IF body_ok
                          THEN [by |-> "override", req |-> NoReq, body |-> NoBody,
                                val |-> v,
                                prev_by |-> last_write.by, prev_val |-> home_mode]
                          ELSE last_write
    /\ UNCHANGED <<st_pc, st_body, st_home, last_activity, db_rows, camVars,
                   notifVars, storeVars, authVars>>

\* ================================= NotificationService (Notification_Service.py)
\* self.user_preferences['<channel>_notifications']
ChannelEnabledAlways(c) == TRUE
ChannelEnabled(c) ==
    CASE c = "push" -> user_preferences.push_notifications
      [] c = "email" -> user_preferences.email_notifications
      [] c = "sms" -> user_preferences.sms_notifications

\* self.user_preferences['notification_types'][type]
TypeEnabled(type) == user_preferences.notification_types[type]

\* is_quiet_hours with datetime.now().time() = now.
IsQuietHoursExclusive(now) ==
    LET start_time == user_preferences.notification_quiet_hours.start
        end_time == user_preferences.notification_quiet_hours.end
    IN IF start_time <= end_time
       THEN start_time < now /\ now < end_time
       ELSE now > start_time \/ now < end_time
IsQuietHours(now) ==
    LET start_time == user_preferences.notification_quiet_hours.start
        end_time == user_preferences.notification_quiet_hours.end
    IN IF start_time <= end_time
       THEN start_time <= now /\ now <= end_time
       ELSE now >= start_time \/ now <= end_time

\* The guard each sender starts with: push needs the server key and a
\* device token, email the address and password, sms the Twilio client.
Configured(c) ==
    CASE c = "push" -> notif_config.firebase_server_key /\ notif_config.device_tokens > 0
      [] c = "email" -> notif_config.email_configured
      [] c = "sms" -> notif_config.twilio_client

\* The delivery calls one sender makes: requests.post per device token up
\* to the one that raises (the k-th), one SMTP session, one Twilio message.
DeliveryAttemptsUnguarded(c, outcome, k) ==
    IF c = "push"
    THEN IF outcome = "raise" /\ notif_config.device_tokens > 0 THEN k
         ELSE notif_config.device_tokens
    ELSE 1
DeliveryAttempts(c, outcome, k) ==
    IF ~Configured(c) THEN 0
    ELSE IF c = "push"
         THEN IF outcome = "raise" THEN k ELSE notif_config.device_tokens
         ELSE 1

\* Whether an exception raised inside a sender leaves the sender: each
\* send_*_notification catches Exception and logs it.
PropagatesRaise(c, outcome) == Configured(c) /\ outcome = "raise"
Propagates(c, outcome) == FALSE

\* The channels whose sender send_*_alert calls, from the i-th on.
RECURSIVE InvokedFrom(_, _)
InvokedFrom(i, o) ==
    IF i > Len(ChannelOrder) THEN {}
    ELSE LET c == ChannelOrder[i]
         IN IF ~ChannelEnabled(c) THEN InvokedFrom(i + 1, o)
            ELSE {c} \cup (IF Propagates(c, o[c]) THEN {} ELSE InvokedFrom(i + 1, o))

\* send_motion_alert returns before anything is sent when the type is
\* disabled or, for motion, in quiet hours; send_doorbell_alert only when
\* the type is disabled.
Suppressed(type, now) ==
    \/ ~TypeEnabled(type)
    \/ type = "motion" /\ IsQuietHours(now)

NoDispatch ==
    [type |-> "none", at |-> 0, home_mode |-> TRUE, stored |-> FALSE, invoked |-> {},
     attempts |-> [c \in Channels |-> 0], failed |-> {}]

\* send_motion_alert / send_doorbell_alert at time `now`; o gives what each
\* channel's delivery does, k the device token at which push raises and
\* db_ok whether store_event's insert went through (its error is logged and
\* dropped). Nothing in either touches notification_logs.
SendAlert(type, hm, now, o, k, db_ok) ==
    LET invoked == IF Suppressed(type, now) THEN {} ELSE InvokedFrom(1, o)
    IN /\ last_dispatch' =
              [type |-> type, at |-> now, home_mode |-> hm,
               stored |-> ~Suppressed(type, now) /\ db_ok, invoked |-> invoked,
               attempts |-> [c \in Channels |->
                                IF c \in invoked THEN DeliveryAttempts(c, o[c], k) ELSE 0],
               failed |-> {c \in invoked : Configured(c) /\ o[c] # "ok"}]
       /\ UNCHANGED <<user_preferences, notif_config, notification_logs>>

\* What the deliveries of one alert do: an outcome for every channel that
\* delivers (enabled and configured); the others deliver nothing.
DispatchInputs ==
    {o \in [Channels -> Outcomes] :
        \A c \in Channels : ~(ChannelEnabled(c) /\ Configured(c)) => o[c] = "ok"}
TokenIndexes == 1..(IF notif_config.device_tokens > 0 THEN notif_config.device_tokens ELSE 1)

\* The preferences and configuration of the code: push and email on, sms
\* off, quiet hours 22:00-07:00, every type on; no provider configured.
NotifyDefault ==
    /\ user_preferences =
          [push_notifications |-> TRUE, email_notifications |-> TRUE,
           sms_notifications |-> FALSE,
           notification_quiet_hours |-> DefaultQuietHours,
           notification_types |-> [motion |-> TRUE, doorbell |-> TRUE]]
    /\ notif_config = [firebase_server_key |-> FALSE, device_tokens |-> 0,
                       email_configured |-> FALSE, twilio_client |-> FALSE]
    /\ last_dispatch = NoDispatch
    /\ notification_logs = <<>>

\* Any preferences and any provider configuration a deployment sets.
NotifyAny ==
    /\ user_preferences \in
          [push_notifications : BOOLEAN, email_notifications : BOOLEAN,
           sms_notifications : BOOLEAN,
           notification_quiet_hours : QuietHourSettings,
           notification_types : [motion : BOOLEAN, doorbell : BOOLEAN]]
    /\ notif_config \in [firebase_server_key : BOOLEAN, device_tokens : 0..MaxTokens,
                         email_configured : BOOLEAN, twilio_client : BOOLEAN]
    /\ last_dispatch = NoDispatch
    /\ notification_logs = <<>>

\* SmartDoorbellSystem.process_motion_event / process_doorbell_event: the
\* alert is sent with the system's own home_mode.
send_motion_alert ==
    /\ \E hm \in BOOLEAN, now \in Times, o \in DispatchInputs, k \in TokenIndexes,
          db_ok \in BOOLEAN :
         SendAlert("motion", hm, now, o, k, db_ok)
    /\ UNCHANGED <<camVars, modeVars, db_rows, storeVars, authVars>>

send_doorbell_alert ==
    /\ \E hm \in BOOLEAN, now \in Times, o \in DispatchInputs, k \in TokenIndexes,
          db_ok \in BOOLEAN :
         SendAlert("doorbell", hm, now, o, k, db_ok)
    /\ UNCHANGED <<camVars, modeVars, db_rows, storeVars, authVars>>

\* ===================================== the recording handlers of app.py
\* Rows the handlers have committed: motion and doorbell events, photo
\* records younger than the retention window, and photo records past it.
RowsStart == db_rows = [events |-> 0, photos |-> 0, aged |-> 0]

\* POST /api/motion/detected: the event is committed with the home_mode
\* read from system_state; away mode sends the motion alert with the request
\* body (which carries no home_mode, so the alert takes the default True).
\* A body that is no object raises before anything is added.
motion_detected ==
    /\ db_rows.events < MaxRows
    /\ \E body_ok \in BOOLEAN, now \in Times, o \in DispatchInputs, k \in TokenIndexes,
          db_ok \in BOOLEAN :
         IF body_ok
         THEN /\ db_rows' = [db_rows EXCEPT !.events = @ + 1]
              /\ IF ~home_mode
                 THEN SendAlert("motion", TRUE, now, o, k, db_ok)
                 ELSE UNCHANGED notifVars
         ELSE UNCHANGED <<db_rows, notifVars>>
    /\ UNCHANGED <<camVars, modeVars, storeVars, authVars>>

\* POST /api/doorbell/pressed: capture, then the event and (when a filename
\* came back) the photo record in one commit, then the doorbell alert. A
\* body that is no object raises after the capture and before the commit.
doorbell_pressed ==
    /\ db_rows.events < MaxRows
    /\ db_rows.photos + db_rows.aged < MaxRows
    /\ camera_lock = NoThread
    /\ \E body_ok \in BOOLEAN, rd \in ReadOutcomes, wr \in WriteOutcomes,
          now \in Times, o \in DispatchInputs, k \in TokenIndexes, db_ok \in BOOLEAN :
         LET dev == DeviceAvailable
             ret == CapturePhotoReturn(dev, rd, wr)
         IN /\ last_capture' =
                   [by |-> "controller", state |-> ret, src |-> "doorbell",
                    nodev |-> ~dev, wrote |-> CapturePhotoWrote(dev, rd, wr)]
            /\ IF body_ok
               THEN /\ db_rows' = [db_rows EXCEPT
                                     !.events = @ + 1,
                                     !.photos = IF ret = "file" THEN @ + 1 ELSE @]
                    /\ SendAlert("doorbell", home_mode, now, o, k, db_ok)
               ELSE UNCHANGED <<db_rows, notifVars>>
    /\ UNCHANGED <<is_initialized, camera_opened, camera_lock, photo_quality, pc,
                   cm_opened, modeVars, storeVars, authVars>>

\* POST /api/camera/capture: capture, and the photo record when a filename
\* came back.
api_capture_photo ==
    /\ db_rows.photos + db_rows.aged < MaxRows
    /\ camera_lock = NoThread
    /\ \E src \in TriggerSources, rd \in ReadOutcomes, wr \in WriteOutcomes :
         LET dev == DeviceAvailable
             ret == CapturePhotoReturn(dev, rd, wr)
         IN /\ last_capture' =
                   [by |-> "controller", state |-> ret, src |-> src,
                    nodev |-> ~dev, wrote |-> CapturePhotoWrote(dev, rd, wr)]
            /\ db_rows' = [db_rows EXCEPT !.photos = IF ret = "file" THEN @ + 1 ELSE @]
    /\ UNCHANGED <<is_initialized, camera_opened, camera_lock, photo_quality, pc,
                   cm_opened, modeVars, notifVars, storeVars, authVars>>

\* GET /api/motion/history and /api/doorbell/history read the tables.
get_history == UNCHANGED vars

\* Thirty days pass for one photo record.
photo_ages ==
    /\ db_rows.photos > 0
    /\ db_rows' = [db_rows EXCEPT !.photos = @ - 1, !.aged = @ + 1]
    /\ UNCHANGED <<camVars, modeVars, notifVars, storeVars, authVars>>

\* cleanup_old_photos: the records past the retention window are deleted
\* in one commit, or an error ends the sweep before the commit.
cleanup_old_photos ==
    /\ \E committed \in BOOLEAN :
         db_rows' = [db_rows EXCEPT !.aged = IF committed THEN 0 ELSE @]
    /\ UNCHANGED <<camVars, modeVars, notifVars, storeVars, authVars>>

\* ============================ the recording handlers of app.py, step by step
\* The handlers run in threads of their own (threaded=True): between the
\* steps of one request, set_home_mode may run.
\* The id of a row that was added to the session and not flushed yet (None).
NoId == 0

\* No request in flight. photo and wrote: what capture_photo returned and
\* whether its file was written; event_id: the id the commit gave the event;
\* stored_hm, alert_hm, resp_hm: system_state['home_mode'] as read for the
\* event row, for the alert and for the response; alerted: send_*_alert was
\* called; write_failed: a write of the event failed; fault: what raised in
\* the handler; status: the response; device_fault: the camera was opened and
\* cap.read() gave no frame or raised.
NoRequest ==
    [kind |-> "none", pc |-> "idle", photo |-> "none", wrote |-> FALSE,
     device_fault |-> FALSE,
     event_id |-> NoId, stored_hm |-> TRUE, alert_hm |-> TRUE, resp_hm |-> TRUE,
     alerted |-> FALSE, write_failed |-> FALSE, fault |-> "none", status |-> "none"]

\* The alert is sent once the commit has returned.
DispatchReadyEarly(r) == r.pc \in {"received", "committed"}
DispatchReady(r) == r.pc = "committed"

\* motion_detected, lines 142-143: the body is read. data.get on a body
\* that is no object raises before anything is added (response 500).
motion_detected_begin ==
    /\ rq.pc = "idle"
    /\ Len(event_rows) < MaxRows
    /\ \E body_ok \in BOOLEAN :
         rq' = IF body_ok
               THEN [NoRequest EXCEPT !.kind = "motion", !.pc = "received"]
               ELSE [NoRequest EXCEPT !.kind = "motion", !.fault = "body",
                                      !.status = "500"]
    /\ UNCHANGED <<camVars, modeVars, db_rows, notifVars,
                   event_rows, photo_rows, events, sessions, last_query, authVars>>

\* Lines 146-153: the MotionEvent with the home_mode read now is added and
\* committed; a commit that raises ends the request with 500.
motion_detected_commit ==
    /\ rq.kind = "motion" /\ rq.pc = "received"
    /\ \E commit_ok \in BOOLEAN :
         IF commit_ok
         THEN /\ event_rows' = Append(event_rows,
                     [id |-> Len(event_rows) + 1, type |-> "motion",
                      home_mode |-> home_mode, photo_captured |-> FALSE])
              /\ rq' = [rq EXCEPT !.pc = "committed", !.event_id = Len(event_rows) + 1,
                                  !.stored_hm = home_mode]
         ELSE /\ UNCHANGED event_rows
              /\ rq' = [rq EXCEPT !.pc = "idle", !.write_failed = TRUE,
                                  !.fault = "commit", !.status = "500"]
    /\ UNCHANGED <<camVars, modeVars, db_rows, notifVars,
                   photo_rows, events, sessions, last_query, authVars>>

\* Lines 156-157: away mode sends the motion alert with the request body,
\* which carries no home_mode (the alert takes the default True).
motion_detected_notify ==
    /\ rq.kind = "motion" /\ DispatchReady(rq)
    /\ IF ~home_mode
       THEN \E now \in Times, o \in DispatchInputs, k \in TokenIndexes, db_ok \in BOOLEAN :
              /\ SendAlert("motion", TRUE, now, o, k, db_ok)
              /\ rq' = [rq EXCEPT !.pc = "notified", !.alert_hm = home_mode,
                                  !.alerted = TRUE,
                                  !.write_failed = ~Suppressed("motion", now) /\ ~db_ok]
       ELSE /\ UNCHANGED notifVars
            /\ rq' = [rq EXCEPT !.pc = "notified", !.alert_hm = home_mode]
    /\ UNCHANGED <<camVars, modeVars, db_rows,
                   event_rows, photo_rows, events, sessions, last_query, authVars>>

\* Lines 160-173: analyze_motion (a module outside this repository's
\* sources: it returns or raises), then the response with the home_mode
\* read now.
motion_detected_respond ==
    /\ rq.kind = "motion" /\ rq.pc = "notified"
    /\ \E analysis_ok \in BOOLEAN :
         rq' = [rq EXCEPT !.pc = "idle", !.resp_hm = home_mode,
                         !.fault = IF analysis_ok THEN "none" ELSE "analysis",
                         !.status = IF analysis_ok THEN "200" ELSE "500"]
    /\ UNCHANGED <<camVars, modeVars, db_rows, notifVars,
                   event_rows, photo_rows, events, sessions, last_query, authVars>>

\* doorbell_pressed, lines 217-223: the body is read and the photo taken.
\* data.get on a body that is no object raises after the capture.
doorbell_pressed_capture ==
    /\ rq.pc = "idle"
    /\ Len(event_rows) < MaxRows
    /\ Len(photo_rows) < MaxRows
    /\ camera_lock = NoThread
    /\ \E body_ok \in BOOLEAN, rd \in ReadOutcomes, wr \in WriteOutcomes :
         LET dev == DeviceAvailable
             ret == CapturePhotoReturn(dev, rd, wr)
             wrote == CapturePhotoWrote(dev, rd, wr)
         IN /\ last_capture' =
                   [by |-> "controller", state |-> ret, src |-> "doorbell",
                    nodev |-> ~dev, wrote |-> wrote]
            /\ rq' = IF body_ok
                     THEN [NoRequest EXCEPT !.kind = "doorbell", !.pc = "received",
                                           !.photo = ret, !.wrote = wrote,
                                           !.device_fault = dev /\ rd # "frame"]
                     ELSE [NoRequest EXCEPT !.kind = "doorbell", !.photo = ret,
                                           !.wrote = wrote, !.fault = "body",
                                           !.device_fault = dev /\ rd # "frame",
                                           !.status = "500"]
    /\ UNCHANGED <<is_initialized, camera_opened, camera_lock, photo_quality, pc,
                   cm_opened, modeVars, db_rows, notifVars,
                   event_rows, photo_rows, events, sessions, last_query, authVars>>

\* Lines 226-246: the DoorbellEvent and, when a filename came back, the
\* Photo are added and committed together. Photo.event_id is given
\* doorbell_event.id before anything was flushed: the event has no id yet.
doorbell_pressed_commit ==
    /\ rq.kind = "doorbell" /\ rq.pc = "received"
    /\ \E commit_ok \in BOOLEAN :
         IF commit_ok
         THEN /\ event_rows' = Append(event_rows,
                     [id |-> Len(event_rows) + 1, type |-> "doorbell",
                      home_mode |-> home_mode, photo_captured |-> rq.photo = "file"])
              /\ photo_rows' =
                     IF rq.photo = "file"
                     THEN Append(photo_rows, [event_id |-> NoId, src |-> "doorbell",
                                              old |-> FALSE, file |-> rq.wrote])
                     ELSE photo_rows
              /\ rq' = [rq EXCEPT !.pc = "committed", !.event_id = Len(event_rows) + 1,
                                  !.stored_hm = home_mode]
         ELSE /\ UNCHANGED <<event_rows, photo_rows>>
              /\ rq' = [rq EXCEPT !.pc = "idle", !.write_failed = TRUE,
                                  !.fault = "commit", !.status = "500"]
    /\ UNCHANGED <<camVars, modeVars, db_rows, notifVars, events, sessions, last_query, authVars>>

\* Lines 249-256: the doorbell alert with the home_mode read now.
doorbell_pressed_notify ==
    /\ rq.kind = "doorbell" /\ DispatchReady(rq)
    /\ \E now \in Times, o \in DispatchInputs, k \in TokenIndexes, db_ok \in BOOLEAN :
         /\ SendAlert("doorbell", home_mode, now, o, k, db_ok)
         /\ rq' = [rq EXCEPT !.pc = "notified", !.alert_hm = home_mode, !.alerted = TRUE,
                             !.write_failed = ~Suppressed("doorbell", now) /\ ~db_ok]
    /\ UNCHANGED <<camVars, modeVars, db_rows,
                   event_rows, photo_rows, events, sessions, last_query, authVars>>

\* Lines 258-266: the response with the home_mode read now.
doorbell_pressed_respond ==
    /\ rq.kind = "doorbell" /\ rq.pc = "notified"
    /\ rq' = [rq EXCEPT !.pc = "idle", !.resp_hm = home_mode, !.status = "200"]
    /\ UNCHANGED <<camVars, modeVars, db_rows, notifVars,
                   event_rows, photo_rows, events, sessions, last_query, authVars>>

\* The preferences of the code with any push and email configuration (push
\* is not configured when there is no device token); sms is off in these
\* preferences, so the Twilio client is never used.
NotifyConfigured ==
    /\ user_preferences =
          [push_notifications |-> TRUE, email_notifications |-> TRUE,
           sms_notifications |-> FALSE,
           notification_quiet_hours |-> DefaultQuietHours,
           notification_types |-> [motion |-> TRUE, doorbell |-> TRUE]]
    /\ notif_config \in [firebase_server_key : {TRUE}, device_tokens : 0..MaxTokens,
                         email_configured : BOOLEAN, twilio_client : {FALSE}]
    /\ last_dispatch = NoDispatch
    /\ notification_logs = <<>>

NoQuery == [op |-> "none", arg |-> 0, filter |-> "none", rows |-> <<>>]
StoreStart ==
    /\ rq = NoRequest
    /\ event_rows = <<>>
    /\ photo_rows = <<>>
    /\ events = <<>>
    /\ sessions = <<>>
    /\ last_query = NoQuery

\* ============================================ AuthService (auth_service.py)
\* Failed attempts after which the account is locked, and for how many
\* minutes.
LockThreshold == 5
LockMinutes == 30
\* locked_until of a user that is not locked (NULL).
NoLock == 0
\* The failed attempts the model lets the counter reach.
MaxFailed == 6
\* The times, in minutes, at which something happens.
Instants == {0, 15, 30, 45}

\* The row register_user inserts: active, no failed attempt, not locked.
AuthStart ==
    /\ user = [is_active |-> TRUE, failed_login_attempts |-> 0, locked_until |-> NoLock]
    /\ clock = 0
    /\ auth = [t \in Threads |-> [pc |-> "idle", read |-> 0]]

\* `if locked_until:` and `datetime.now() < lock_time`, on the row as it is.
Locked == user.locked_until # NoLock /\ clock < user.locked_until

\* authenticate_user, lines 139-182: the row is selected and the connection
\* closed; an unknown user, a deactivated or a locked account return at
\* once; else the password is verified and _reset_failed_attempts or
\* _increment_failed_attempts is called, each with a connection of its own.
authenticate_user(t) ==
    /\ auth[t].pc = "idle"
    /\ \E found \in BOOLEAN, password_ok \in BOOLEAN :
         IF ~found \/ ~user.is_active \/ Locked
         THEN UNCHANGED auth
         ELSE IF password_ok
              THEN auth' = [auth EXCEPT ![t].pc = "reset"]
              ELSE /\ user.failed_login_attempts < MaxFailed
                   /\ auth' = [auth EXCEPT ![t].pc = "increment"]
    /\ UNCHANGED <<user, clock>>
    /\ UNCHANGED <<camVars, modeVars, db_rows, notifVars, storeVars>>

\* _reset_failed_attempts, and the 'Authentication successful' return.
reset_failed_attempts(t) ==
    /\ auth[t].pc = "reset"
    /\ user' = [user EXCEPT !.failed_login_attempts = 0, !.locked_until = NoLock]
    /\ auth' = [auth EXCEPT ![t].pc = "idle"]
    /\ UNCHANGED clock
    /\ UNCHANGED <<camVars, modeVars, db_rows, notifVars, storeVars>>

\* _increment_failed_attempts, line 195: the counter is selected.
increment_failed_attempts_select(t) ==
    /\ auth[t].pc = "increment"
    /\ auth' = [auth EXCEPT ![t].pc = "update", ![t].read = user.failed_login_attempts]
    /\ UNCHANGED <<user, clock>>
    /\ UNCHANGED <<camVars, modeVars, db_rows, notifVars, storeVars>>

\* Lines 197-214: the counter read plus one is written; from LockThreshold
\* on with locked_until thirty minutes from now, below it with
\* locked_until as it is. Then the 'Invalid credentials' return.
increment_failed_attempts_update(t) ==
    /\ auth[t].pc = "update"
    /\ LET failed_attempts == auth[t].read + 1
       IN user' = IF failed_attempts >= LockThreshold
                  THEN [user EXCEPT !.failed_login_attempts = failed_attempts,
                                    !.locked_until = clock + LockMinutes]
                  ELSE [user EXCEPT !.failed_login_attempts = failed_attempts]
    /\ auth' = [auth EXCEPT ![t].pc = "idle", ![t].read = 0]
    /\ UNCHANGED clock
    /\ UNCHANGED <<camVars, modeVars, db_rows, notifVars, storeVars>>

\* Time passes.
tick ==
    /\ \E now \in Instants : now > clock /\ clock' = now
    /\ UNCHANGED <<user, auth>>
    /\ UNCHANGED <<camVars, modeVars, db_rows, notifVars, storeVars>>

NextAuth ==
    \/ \E t \in Threads : authenticate_user(t)
    \/ \E t \in Threads : reset_failed_attempts(t)
    \/ \E t \in Threads : increment_failed_attempts_select(t)
    \/ \E t \in Threads : increment_failed_attempts_update(t)
    \/ tick

NextCamera ==
    \/ \E t \in Threads : capture_photo(t)
    \/ \E t \in Threads : capture_photo_enter(t)
    \/ \E t \in Threads : capture_photo_body(t)
    \/ \E t \in Threads : adjust_camera_settings(t)
    \/ \E t \in Threads : adjust_camera_settings_enter(t)
    \/ \E t \in Threads : adjust_camera_settings_body(t)
    \/ \E t \in Threads : start_video_stream(t)
    \/ \E t \in Threads : generate_frames_enter(t)
    \/ \E t \in Threads : generate_frames_step(t)
    \/ \E t \in Threads : generate_frames_resume(t)
    \/ cleanup
    \/ camera_module_capture_photo
    \/ release_camera

InitCamera == CameraStart /\ ModeStart /\ RowsStart /\ AuthStart /\ NotifyDefault /\ StoreStart
SpecCamera == InitCamera /\ [][NextCamera]_vars

\* An account as registered, or one that was deactivated.
InitAuth ==
    /\ CameraStart /\ ModeStart /\ RowsStart /\ NotifyDefault /\ StoreStart
    /\ user \in [is_active : BOOLEAN, failed_login_attempts : {0}, locked_until : {NoLock}]
    /\ clock = 0
    /\ auth = [t \in Threads |-> [pc |-> "idle", read |-> 0]]
SpecAuth == InitAuth /\ [][NextAuth]_vars

NextMode ==
    \/ \E r \in Reqs : system_status_post(r)
    \/ \E r \in Reqs : system_status_assign(r)
    \/ system_status_get
    \/ get_config
    \/ set_home_mode
    \/ motion_detected
    \/ doorbell_pressed
    \/ api_capture_photo
    \/ get_history
    \/ photo_ages
    \/ cleanup_old_photos

InitMode ==
    CameraStart /\ ~cm_opened /\ ModeStart /\ RowsStart /\ AuthStart /\ NotifyDefault /\ StoreStart
SpecMode == InitMode /\ [][NextMode]_vars

\* The writers and the readers of system_state alone.
NextStatus ==
    \/ \E r \in Reqs : system_status_post(r)
    \/ \E r \in Reqs : system_status_assign(r)
    \/ system_status_get
    \/ get_config
    \/ set_home_mode

SpecStatus == InitMode /\ [][NextStatus]_vars

\* ------------------------------------------- is_quiet_hours on its own
\* Times of day at and next to the bounds of the intervals, and the
\* intervals a deployment configures: within one day, across midnight, and
\* with equal bounds.
ClockTimes ==
    {Minutes(0, 0), Minutes(6, 59), Minutes(7, 0), Minutes(7, 1),
     Minutes(11, 59), Minutes(12, 0), Minutes(12, 1),
     Minutes(21, 59), Minutes(22, 0), Minutes(22, 1), Minutes(23, 59)}
QuietIntervals ==
    [start : {Minutes(7, 0), Minutes(12, 0), Minutes(22, 0)},
     end : {Minutes(7, 0), Minutes(12, 0), Minutes(22, 0)}]

QuietStart ==
    /\ user_preferences \in
          [push_notifications : {TRUE}, email_notifications : {TRUE},
           sms_notifications : {FALSE},
           notification_quiet_hours : QuietIntervals,
           notification_types : {[motion |-> TRUE, doorbell |-> TRUE]}]
    /\ notif_config = [firebase_server_key |-> FALSE, device_tokens |-> 0,
                       email_configured |-> FALSE, twilio_client |-> FALSE]
    /\ last_dispatch = NoDispatch
    /\ notification_logs = <<>>

\* NotificationService.is_quiet_hours() is called at `now`; what it returned
\* is kept as the one row of last_query.
is_quiet_hours ==
    /\ \E now \in ClockTimes :
         last_query' = [op |-> "is_quiet_hours", arg |-> now, filter |-> "none",
                        rows |-> <<IsQuietHours(now)>>]
    /\ UNCHANGED <<camVars, modeVars, db_rows, notifVars,
                   rq, event_rows, photo_rows, events, sessions, authVars>>

NextQuiet == is_quiet_hours
InitQuiet == CameraStart /\ ModeStart /\ RowsStart /\ AuthStart /\ QuietStart /\ StoreStart
SpecQuiet == InitQuiet /\ [][NextQuiet]_vars

\* ======================================= the Event model (db/model.py)
\* Event types and timestamps of the events that are created; two events
\* can carry the same timestamp.
EventTypes == {"doorbell", "motion"}
Timestamps == {1, 2}
\* A metadata dict: with string keys or with integer keys.
Dicts == {[form |-> "dict", keys |-> k] : k \in {"str", "int"}}
\* The event_data dicts Event.create is called with.
EventData ==
    [event_type : EventTypes, timestamp : Timestamps, location : {"front_door"},
     photo_filename : {"none"}, home_mode : {TRUE}, notification_sent : {FALSE},
     user_id : {1}, metadata : Dicts]

\* json.dumps writes the keys of a dict as strings; json.loads gives back a
\* dict with the keys of the text.
JsonDumps(d) == [form |-> "text", keys |-> IF d.keys = "int" THEN "str" ELSE d.keys]
JsonLoadsRaw(t) == t
JsonLoads(t) == [form |-> "dict", keys |-> t.keys]

\* The row Event.create inserts, with the id sqlite gives it; event_data
\* keeps the dict the caller passed.
InsertedRow(e, id) ==
    [id |-> id, event_type |-> e.event_type, timestamp |-> e.timestamp,
     location |-> e.location, photo_filename |-> e.photo_filename,
     home_mode |-> e.home_mode, notification_sent |-> e.notification_sent,
     user_id |-> e.user_id, metadata |-> JsonDumps(e.metadata),
     processed |-> FALSE, event_data |-> e]

\* The dict get_recent builds from a row: the columns of FIELDS, the
\* metadata parsed.
RowDict(row) ==
    [id |-> row.id, event_type |-> row.event_type, timestamp |-> row.timestamp,
     location |-> row.location, photo_filename |-> row.photo_filename,
     home_mode |-> row.home_mode, notification_sent |-> row.notification_sent,
     user_id |-> row.user_id, metadata |-> JsonLoads(row.metadata),
     processed |-> row.processed]

\* WHERE 1=1 AND event_type = ?: the rows a query by type selects.
Selected(event_type) == {i \in DOMAIN events : events[i].event_type = event_type}

\* ORDER BY timestamp DESC: the orders sqlite may return the selected rows
\* in. Rows with equal timestamps come in an order sqlite does not define.
Orderings(S) ==
    {f \in [1..Cardinality(S) -> S] :
        /\ \A i, j \in DOMAIN f : i # j => f[i] # f[j]
        /\ \A i, j \in DOMAIN f :
              i < j => events[f[i]].timestamp >= events[f[j]].timestamp}

\* UPDATE events SET notification_sent = ?, processed = 1 WHERE id = ?
UpdateNotificationStatusFlip(rows, id, sent) ==
    [i \in DOMAIN rows |->
        IF rows[i].id = id
        THEN [rows[i] EXCEPT !.notification_sent = ~@, !.processed = TRUE]
        ELSE rows[i]]
UpdateNotificationStatus(rows, id, sent) ==
    [i \in DOMAIN rows |->
        IF rows[i].id = id
        THEN [rows[i] EXCEPT !.notification_sent = sent, !.processed = TRUE]
        ELSE rows[i]]

\* Event.create(event_data). last_query holds what the last query returned
\* as long as nothing was written after it.
event_create ==
    /\ Len(events) < MaxEvents
    /\ \E e \in EventData : events' = Append(events, InsertedRow(e, Len(events) + 1))
    /\ last_query' = NoQuery
    /\ UNCHANGED <<camVars, modeVars, db_rows, notifVars,
                   rq, event_rows, photo_rows, sessions, authVars>>

\* Event.get_recent(limit, event_type), called with an event type.
get_recent ==
    /\ \E limit \in 1..MaxEvents, event_type \in EventTypes :
         \E f \in Orderings(Selected(event_type)) :
            last_query' =
                [op |-> "get_recent", arg |-> limit, filter |-> event_type,
                 rows |-> [i \in 1..(IF limit < Len(f) THEN limit ELSE Len(f)) |->
                              RowDict(events[f[i]])]]
    /\ UNCHANGED <<camVars, modeVars, db_rows, notifVars,
                   rq, event_rows, photo_rows, events, sessions, authVars>>

\* Event.update_notification_status(event_id, sent)
update_notification_status ==
    /\ \E id \in 1..MaxEvents, sent \in BOOLEAN :
         events' = UpdateNotificationStatus(events, id, sent)
    /\ last_query' = NoQuery
    /\ UNCHANGED <<camVars, modeVars, db_rows, notifVars,
                   rq, event_rows, photo_rows, sessions, authVars>>

NextStore ==
    \/ event_create
    \/ get_recent
    \/ update_notification_status

InitStore ==
    /\ CameraStart /\ ~is_initialized /\ ~cm_opened /\ ModeStart /\ RowsStart /\ AuthStart
    /\ NotifyDefault /\ StoreStart
SpecStore == InitStore /\ [][NextStore]_vars

\* ------------------- send_doorbell_alert step by step, with Event's update
\* The row store_event inserts: notification_sent is written True with the
\* insert, the timestamp is the default of the column.
StoredEvent(type, hm, id) ==
    [id |-> id, event_type |-> type, timestamp |-> 1, location |-> "front_door",
     photo_filename |-> "none", home_mode |-> hm, notification_sent |-> TRUE,
     user_id |-> 0, metadata |-> [form |-> "text", keys |-> "str"],
     processed |-> FALSE]

\* send_doorbell_alert up to and with store_event (lines 107-138): an insert
\* that fails is logged and dropped.
store_event ==
    /\ rq.pc = "idle"
    /\ Len(events) < MaxEvents
    /\ TypeEnabled("doorbell")
    /\ \E hm \in BOOLEAN, db_ok \in BOOLEAN :
         LET id == Len(events) + 1
         IN /\ events' = IF db_ok
                          THEN Append(events, StoredEvent("doorbell", hm, id))
                          ELSE events
            /\ rq' = [NoRequest EXCEPT !.kind = "alert", !.pc = "stored",
                                       !.event_id = IF db_ok THEN id ELSE NoId,
                                       !.alert_hm = hm]
    /\ last_query' = NoQuery
    /\ UNCHANGED <<camVars, modeVars, db_rows, notifVars,
                   event_rows, photo_rows, sessions, authVars>>

\* send_doorbell_alert, lines 141-148: the senders of the enabled channels.
send_doorbell_alert_channels ==
    /\ rq.kind = "alert" /\ rq.pc = "stored"
    /\ \E now \in Times, o \in DispatchInputs, k \in TokenIndexes :
         SendAlert("doorbell", rq.alert_hm, now, o, k, rq.event_id # NoId)
    /\ rq' = [rq EXCEPT !.pc = "idle", !.alerted = TRUE]
    /\ UNCHANGED <<camVars, modeVars, db_rows,
                   event_rows, photo_rows, events, sessions, last_query, authVars>>

NextDispatch ==
    \/ store_event
    \/ send_doorbell_alert_channels
    \/ update_notification_status

InitDispatch ==
    /\ CameraStart /\ ~is_initialized /\ ~cm_opened /\ ModeStart /\ RowsStart /\ AuthStart
    /\ NotifyConfigured /\ StoreStart
SpecDispatch == InitDispatch /\ [][NextDispatch]_vars

\* ================================ the NotificationLog model (db/model.py)
\* NotificationLog.STATUSES
Statuses == {"pending", "sent", "failed", "retrying"}
\* sent_at, the time a log entry is created at; the clock does not run
\* backwards and two entries can be created at the same time.
LogTimes == {1, 2}

\* WHERE status = 'failed' AND retry_count < ?
RetriableInclusive(max_retries) ==
    {i \in DOMAIN notification_logs :
        /\ notification_logs[i].status = "failed"
        /\ notification_logs[i].retry_count <= max_retries}
Retriable(max_retries) ==
    {i \in DOMAIN notification_logs :
        /\ notification_logs[i].status = "failed"
        /\ notification_logs[i].retry_count < max_retries}

\* ORDER BY sent_at ASC: the orders sqlite may return the selected entries
\* in.
LogOrderings(S) ==
    {f \in [1..Cardinality(S) -> S] :
        /\ \A i, j \in DOMAIN f : i # j => f[i] # f[j]
        /\ \A i, j \in DOMAIN f :
              i < j => notification_logs[f[i]].sent_at <= notification_logs[f[j]].sent_at}

\* NotificationLog.create(log_data): status and retry_count as given
\* (defaults 'pending' and 0), sent_at now.
notification_log_create ==
    /\ Len(notification_logs) < MaxLogs
    /\ \E status \in Statuses, retry_count \in 0..MaxRetryCount, now \in LogTimes :
         /\ \A i \in DOMAIN notification_logs : notification_logs[i].sent_at <= now
         /\ notification_logs' = Append(notification_logs,
                [id |-> Len(notification_logs) + 1, notification_type |-> "push",
                 status |-> status, retry_count |-> retry_count, sent_at |-> now])
    /\ last_query' = NoQuery
    /\ UNCHANGED <<camVars, modeVars, db_rows, user_preferences, notif_config,
                   last_dispatch, rq, event_rows, photo_rows, events, sessions, authVars>>

\* NotificationLog.update_status(log_id, status)
update_status ==
    /\ \E id \in 1..MaxLogs, status \in Statuses :
         notification_logs' =
             [i \in DOMAIN notification_logs |->
                 IF notification_logs[i].id = id
                 THEN [notification_logs[i] EXCEPT !.status = status]
                 ELSE notification_logs[i]]
    /\ last_query' = NoQuery
    /\ UNCHANGED <<camVars, modeVars, db_rows, user_preferences, notif_config,
                   last_dispatch, rq, event_rows, photo_rows, events, sessions, authVars>>

\* NotificationLog.increment_retry_count(log_id)
increment_retry_count ==
    /\ \E id \in 1..MaxLogs :
         /\ \A i \in DOMAIN notification_logs :
               notification_logs[i].id = id =>
                   notification_logs[i].retry_count < MaxRetryCount
         /\ notification_logs' =
               [i \in DOMAIN notification_logs |->
                   IF notification_logs[i].id = id
                   THEN [notification_logs[i] EXCEPT !.retry_count = @ + 1]
                   ELSE notification_logs[i]]
    /\ last_query' = NoQuery
    /\ UNCHANGED <<camVars, modeVars, db_rows, user_preferences, notif_config,
                   last_dispatch, rq, event_rows, photo_rows, events, sessions, authVars>>

\* NotificationLog.get_failed_notifications(max_retries)
get_failed_notifications ==
    /\ \E max_retries \in 1..MaxRetryCount :
         \E f \in LogOrderings(Retriable(max_retries)) :
            last_query' =
                [op |-> "get_failed_notifications", arg |-> max_retries,
                 filter |-> "failed",
                 rows |-> [i \in DOMAIN f |-> notification_logs[f[i]]]]
    /\ UNCHANGED <<camVars, modeVars, db_rows, notifVars,
                   rq, event_rows, photo_rows, events, sessions, authVars>>

NextLog ==
    \/ notification_log_create
    \/ update_status
    \/ increment_retry_count
    \/ get_failed_notifications

InitLog ==
    /\ CameraStart /\ ~is_initialized /\ ~cm_opened /\ ModeStart /\ RowsStart /\ AuthStart
    /\ NotifyDefault /\ StoreStart
SpecLog == InitLog /\ [][NextLog]_vars

\* ===================================== the retention sweep (app.py)
\* The photo tables and session tables a sweep can find: a photo record is
\* past the 30 days or not and its file is on disk or not; a session is
\* past its expires_at or not and active or not.
RECURSIVE SeqsUpTo(_, _)
SeqsUpTo(S, n) ==
    IF n = 0 THEN {<<>>}
    ELSE SeqsUpTo(S, n - 1) \cup {Append(q, x) : q \in SeqsUpTo(S, n - 1), x \in S}
PhotoRecords == [event_id : {NoId}, src : {"doorbell"}, old : BOOLEAN, file : BOOLEAN]
SessionRecords == [expired : BOOLEAN, is_active : BOOLEAN]

SweepStart ==
    /\ rq = NoRequest
    /\ event_rows = <<>>
    /\ photo_rows \in SeqsUpTo(PhotoRecords, MaxPhotos)
    /\ events = <<>>
    /\ sessions \in SeqsUpTo(SessionRecords, MaxSessions)
    /\ last_query = NoQuery

\* Photo.query.filter(Photo.timestamp < cutoff_date)
OldPhotos == {i \in DOMAIN photo_rows : photo_rows[i].old}
KeepNew(p) == ~p.old

\* background_tasks: cleanup_old_photos and nothing else. The files of the
\* old photos are removed one after the other and the records deleted in
\* one commit at the end; an exception (the query, an os.remove, the
\* commit) ends the sweep where it is, the files removed so far stay removed
\* and no record is deleted. last_query keeps what ended the sweep and, for
\* an os.remove that raised, at which photo.
background_tasks ==
    /\ \/ \E fault \in {"none", "query", "commit"} :
            /\ photo_rows' =
                  CASE fault = "none" -> SelectSeq(photo_rows, KeepNew)
                    [] fault = "query" -> photo_rows
                    [] fault = "commit" ->
                         [i \in DOMAIN photo_rows |->
                             IF i \in OldPhotos THEN [photo_rows[i] EXCEPT !.file = FALSE]
                             ELSE photo_rows[i]]
            /\ last_query' = [op |-> "cleanup_old_photos", arg |-> 0,
                              filter |-> fault, rows |-> <<>>]
       \/ \E at \in {i \in OldPhotos : photo_rows[i].file} :
            /\ photo_rows' =
                  [i \in DOMAIN photo_rows |->
                      IF i \in OldPhotos /\ i < at
                      THEN [photo_rows[i] EXCEPT !.file = FALSE]
                      ELSE photo_rows[i]]
            /\ last_query' = [op |-> "cleanup_old_photos", arg |-> at,
                              filter |-> "remove", rows |-> <<>>]
    /\ UNCHANGED <<camVars, modeVars, db_rows, notifVars,
                   rq, event_rows, events, sessions, authVars>>

\* Thirty days have passed for a photo record.
photo_expires ==
    /\ \E i \in DOMAIN photo_rows :
         /\ ~photo_rows[i].old
         /\ photo_rows' = [photo_rows EXCEPT ![i].old = TRUE]
    /\ UNCHANGED <<camVars, modeVars, db_rows, notifVars,
                   rq, event_rows, events, sessions, last_query, authVars>>

\* The expires_at of a session has passed.
session_expires ==
    /\ \E i \in DOMAIN sessions :
         /\ ~sessions[i].expired
         /\ sessions' = [sessions EXCEPT ![i].expired = TRUE]
    /\ UNCHANGED <<camVars, modeVars, db_rows, notifVars,
                   rq, event_rows, photo_rows, events, last_query, authVars>>

\* UserSession.cleanup_expired: UPDATE user_sessions SET is_active = 0
\* WHERE expires_at < now AND is_active = 1. Nothing in app.py calls it.
cleanup_expired ==
    /\ sessions' = [i \in DOMAIN sessions |->
                       IF sessions[i].expired /\ sessions[i].is_active
                       THEN [sessions[i] EXCEPT !.is_active = FALSE]
                       ELSE sessions[i]]
    /\ UNCHANGED <<camVars, modeVars, db_rows, notifVars,
                   rq, event_rows, photo_rows, events, last_query, authVars>>

NextSweep ==
    \/ background_tasks
    \/ photo_expires
    \/ session_expires
    \/ cleanup_expired

InitSweep ==
    /\ CameraStart /\ ~is_initialized /\ ~cm_opened /\ ModeStart /\ RowsStart /\ AuthStart
    /\ NotifyDefault /\ SweepStart
SpecSweep == InitSweep /\ [][NextSweep]_vars

NextRecord ==
    \/ motion_detected_begin
    \/ motion_detected_commit
    \/ motion_detected_notify
    \/ motion_detected_respond
    \/ doorbell_pressed_capture
    \/ doorbell_pressed_commit
    \/ doorbell_pressed_notify
    \/ doorbell_pressed_respond
    \/ set_home_mode

InitRecord ==
    /\ CameraStart /\ ~cm_opened /\ ModeStart /\ RowsStart /\ AuthStart
    /\ NotifyConfigured /\ StoreStart
SpecRecord == InitRecord /\ [][NextRecord]_vars

NextNotify ==
    \/ send_motion_alert
    \/ send_doorbell_alert

InitNotify ==
    /\ CameraStart /\ ~is_initialized /\ ~cm_opened /\ ModeStart /\ RowsStart /\ AuthStart
    /\ NotifyAny /\ StoreStart
SpecNotify == InitNotify /\ [][NextNotify]_vars

\* ================================================================ claims
\* C1: at every instant at most one thread is inside a block guarded by the
\* camera lock (capture_photo, adjust_camera_settings, the frame generator).
C1_MutualExclusion == Cardinality(InCritical) <= 1

\* C1 witness: one thread is capturing while another waits for the lock.
C1_Witness ==
    \E t, u \in Threads :
        t # u /\ pc[t] = "cap_in" /\ pc[u] \in {"cap_wait", "adj_wait", "gen_wait"}

\* C2: a capture_photo call that found no capture device returned a
\* placeholder filename, never None.
C2_PlaceholderWhenNoDevice ==
    (last_capture.state # "unset" /\ last_capture.nodev) => last_capture.state = "file"

\* C3: a filename returned by CameraController.capture_photo names a file
\* the call wrote; a call whose write failed returned None.
C3_ReturnedFileWasWritten ==
    (last_capture.by = "controller" /\ last_capture.state = "file") => last_capture.wrote

\* C4: the assignment of a status update whose signal is in the ambiguous
\* band [-80, -60] leaves home_mode as it was.
C4_MiddleBandKeepsState ==
    [][\A r \in Reqs :
          (system_status_assign(r) /\ InMiddleBand(st_body[r])) => home_mode' = home_mode]_vars

\* C5: after a status update from a signal above -60 the state is home, and
\* after one from a signal below -80 it is away, whatever it was before.
C5_StrongHomeWeakAway ==
    (last_write.by = "signal" /\ last_write.body.kind # "none") =>
        /\ WifiStrength(last_write.body) > NearThreshold => home_mode = TRUE
        /\ WifiStrength(last_write.body) < FarThreshold => home_mode = FALSE

\* C5 witness: a weak signal has turned the initial home state into away.
C5_Witness ==
    /\ last_write.by = "signal"
    /\ last_write.body.kind = "field"
    /\ last_write.body.wifi < FarThreshold
    /\ home_mode = FALSE

\* C6: while set_home_mode(v) is the last assignment the state is v, and
\* only set_home_mode and the assignment of a status update change the
\* state: no motion, doorbell, capture, history, config or sweep step does.
C6_OverrideAuthoritative ==
    /\ [](last_write.by = "override" => home_mode = last_write.val)
    /\ [][home_mode' # home_mode =>
            (set_home_mode \/ \E r \in Reqs : system_status_assign(r))]_vars

\* C6 witness: the override to away stands after a motion event was
\* recorded and its alert sent.
C6_Witness ==
    /\ last_write.by = "override"
    /\ last_write.val = FALSE
    /\ home_mode = FALSE
    /\ db_rows.events > 0
    /\ last_dispatch.type = "motion"

\* The enablement flag of a channel, as the preferences hold it.
PreferenceFlag(c) ==
    CASE c = "push" -> user_preferences.push_notifications
      [] c = "email" -> user_preferences.email_notifications
      [] c = "sms" -> user_preferences.sms_notifications

\* t lies in the configured quiet interval, bounds included, the interval
\* wrapping midnight when it starts after it ends.
InQuietInterval(t) ==
    LET q == user_preferences.notification_quiet_hours
    IN (q.start <= q.end /\ q.start <= t /\ t <= q.end)
       \/ (q.start > q.end /\ (t >= q.start \/ t <= q.end))

\* The scenario of C7: a motion alert under quiet hours 22:00-07:00 with
\* motion notifications enabled.
MotionScenario ==
    /\ last_dispatch.type = "motion"
    /\ user_preferences.notification_quiet_hours = DefaultQuietHours
    /\ user_preferences.notification_types.motion

C8_NoDisabledChannelNoQuietMotion ==
    last_dispatch.type # "none" =>
        /\ \A c \in Channels :
              ~PreferenceFlag(c) =>
                  c \notin last_dispatch.invoked /\ last_dispatch.attempts[c] = 0
        /\ (last_dispatch.type = "motion" /\ InQuietInterval(last_dispatch.at)) =>
              /\ last_dispatch.invoked = {}
              /\ \A c \in Channels : last_dispatch.attempts[c] = 0

\* C8 witness: a doorbell alert delivered on push while the configured sms
\* channel, disabled in the preferences, got nothing.
C8_Witness ==
    /\ last_dispatch.type = "doorbell"
    /\ ~PreferenceFlag("sms") /\ Configured("sms")
    /\ last_dispatch.attempts["push"] >= 1
    /\ last_dispatch.attempts["sms"] = 0

\* The alert was not held back: its type is enabled and, for motion, the
\* time is outside quiet hours.
NotHeldBack ==
    /\ last_dispatch.type # "none"
    /\ user_preferences.notification_types[last_dispatch.type]
    /\ ~(last_dispatch.type = "motion" /\ InQuietInterval(last_dispatch.at))

\* C9: whichever deliveries failed, the sender of every enabled channel was
\* called and every enabled, configured channel had a delivery attempted.
C9_FailureDoesNotStopOthers ==
    NotHeldBack =>
        \A c \in Channels :
            PreferenceFlag(c) =>
                /\ c \in last_dispatch.invoked
                /\ Configured(c) => last_dispatch.attempts[c] >= 1

\* C9 witness: push and email both failed and sms was still delivered.
C9_Witness ==
    /\ NotHeldBack
    /\ last_dispatch.failed = {"push", "email"}
    /\ last_dispatch.attempts["sms"] = 1

\* C10: every channel an alert was sent on has its attempt recorded in the
\* notification log.
C10_AttemptsLogged ==
    \A c \in last_dispatch.invoked :
        \E i \in DOMAIN notification_logs : notification_logs[i].notification_type = c

\* C11: a doorbell press handled in away mode with push and email enabled and
\* sms disabled leaves exactly one doorbell event of that press, stored with
\* home_mode false, attempts exactly one delivery on push and one on email,
\* and logs each of the two with status sent or failed.
C11_DoorbellAwayTwoLoggedAttempts ==
    (/\ rq.kind = "doorbell" /\ rq.status = "200"
     /\ ~rq.stored_hm /\ ~rq.alert_hm
     /\ PreferenceFlag("push") /\ PreferenceFlag("email") /\ ~PreferenceFlag("sms")
     /\ user_preferences.notification_types.doorbell) =>
        /\ Cardinality({i \in DOMAIN event_rows :
                           /\ event_rows[i].id = rq.event_id
                           /\ event_rows[i].type = "doorbell"
                           /\ event_rows[i].home_mode = FALSE}) = 1
        /\ last_dispatch.attempts = [c \in Channels |-> IF c = "sms" THEN 0 ELSE 1]
        /\ \A c \in {"push", "email"} :
              \E i \in DOMAIN notification_logs :
                  /\ notification_logs[i].notification_type = c
                  /\ notification_logs[i].status \in {"sent", "failed"}

\* C12: the photo record a doorbell press stored carries the id of the
\* doorbell event the same request created.
C12_PhotoAttachedToEvent ==
    (rq.kind = "doorbell" /\ rq.pc \in {"committed", "notified"} /\ rq.photo = "file") =>
        photo_rows[Len(photo_rows)].event_id = rq.event_id

\* The event the request in flight committed is in the table.
EventCommitted ==
    \E i \in DOMAIN event_rows :
        event_rows[i].id = rq.event_id /\ event_rows[i].type = rq.kind

\* C13: whenever the alert of a motion or doorbell request has been sent the
\* event of the request is committed and stays committed, and failed
\* deliveries do not turn the response into an error: a request whose alert
\* was sent answers 200 unless the motion analysis after it raised.
C13_DispatchAfterCommitBestEffort ==
    rq.alerted =>
        /\ EventCommitted
        /\ rq.pc = "idle" => (rq.status = "200" \/ rq.fault = "analysis")

\* C13 witness: a doorbell request answered 200 with its event committed
\* although both deliveries of its alert failed.
C13_Witness ==
    /\ rq.kind = "doorbell" /\ rq.alerted /\ rq.status = "200"
    /\ EventCommitted
    /\ last_dispatch.failed = {"push", "email"}

\* C19: a request during which a write of the event failed answers with an
\* error, never with success.
C19_EventWriteFailureSurfaced ==
    (rq.pc = "idle" /\ rq.write_failed) => rq.status = "500"

\* The record r of a query result shows the event e as it was appended;
\* notification_sent is compared as long as the event was not marked.
SameAsAppended(r, e) ==
    /\ r.event_type = e.event_type /\ r.timestamp = e.timestamp
    /\ r.location = e.location /\ r.photo_filename = e.photo_filename
    /\ r.home_mode = e.home_mode /\ r.user_id = e.user_id
    /\ ~r.processed => r.notification_sent = e.notification_sent

\* The events of the queried type that precede or tie with event i in
\* timestamp order.
NotAfter(i) ==
    {j \in DOMAIN events :
        /\ j # i
        /\ events[j].event_type = events[i].event_type
        /\ events[j].timestamp >= events[i].timestamp}

\* C14 as stated: a query by type returns, for every event of that type in
\* the table, a record equal to the event as appended, metadata included.
C14_AppendQueryRoundTrip ==
    (last_query.op = "get_recent" /\ last_query.filter \in EventTypes) =>
        \A i \in DOMAIN events :
            events[i].event_type = last_query.filter =>
                \E n \in DOMAIN last_query.rows :
                    LET r == last_query.rows[n]
                    IN /\ r.id = events[i].id
                       /\ SameAsAppended(r, events[i].event_data)
                       /\ r.metadata = events[i].event_data.metadata

\* C14 amended: a query by type with limit n returns such a record for
\* every event of that type that fewer than n other events of the type
\* precede or tie with; its metadata is the JSON round trip of the appended
\* metadata: equal to it when the keys are strings, the same dict with the
\* keys turned into strings otherwise.
C14_RoundTripWithinLimit ==
    (last_query.op = "get_recent" /\ last_query.filter \in EventTypes) =>
        \A i \in DOMAIN events :
            (/\ events[i].event_type = last_query.filter
             /\ Cardinality(NotAfter(i)) < last_query.arg) =>
                \E n \in DOMAIN last_query.rows :
                    LET r == last_query.rows[n]
                        m == events[i].event_data.metadata
                    IN /\ r.id = events[i].id
                       /\ SameAsAppended(r, events[i].event_data)
                       /\ r.metadata = IF m.keys = "int"
                                       THEN [form |-> "dict", keys |-> "str"]
                                       ELSE m

\* C14 witness: a doorbell event with string-keyed metadata came back from
\* a query by type after a motion event was appended behind it.
C14_Witness ==
    /\ last_query.op = "get_recent" /\ last_query.filter = "doorbell"
    /\ Len(events) = 2
    /\ events[1].event_type = "doorbell" /\ events[2].event_type = "motion"
    /\ events[1].event_data.metadata.keys = "str"
    /\ Len(last_query.rows) = 1
    /\ last_query.rows[1].id = 1
    /\ last_query.rows[1].metadata = events[1].event_data.metadata

\* C15: update_notification_status a second time with the same event id and
\* the same sent value leaves the events table as the first call left it.
C15_MarkProcessedIdempotent ==
    [][update_notification_status =>
          \A id \in 1..MaxEvents, sent \in BOOLEAN :
              events' = UpdateNotificationStatus(events, id, sent) =>
                  UpdateNotificationStatus(events', id, sent) = events']_vars

\* C15 witness: an event was marked processed with notification_sent true.
C15_Witness ==
    \E i \in DOMAIN events :
        /\ events[i].processed /\ events[i].notification_sent
        /\ ~events[i].event_data.notification_sent

\* C16: the records of a query come ordered by timestamp descending and,
\* among equal timestamps, id descending.
C16_OrderedByTimestampThenId ==
    last_query.op = "get_recent" =>
        \A i, j \in DOMAIN last_query.rows :
            i < j =>
                \/ last_query.rows[i].timestamp > last_query.rows[j].timestamp
                \/ /\ last_query.rows[i].timestamp = last_query.rows[j].timestamp
                   /\ last_query.rows[i].id > last_query.rows[j].id

\* C17: get_failed_notifications(max_retries) returns exactly the log
\* entries that are failed with retry_count below max_retries, each once,
\* oldest first; it returns no entry that is sent, pending or retrying and
\* none with retry_count at or above max_retries.
C17_RetriableExactlyFailedBelowMax ==
    last_query.op = "get_failed_notifications" =>
        LET rows == last_query.rows
        IN /\ \A n \in DOMAIN rows :
                 /\ rows[n].status = "failed"
                 /\ rows[n].retry_count < last_query.arg
                 /\ \E i \in DOMAIN notification_logs : notification_logs[i] = rows[n]
           /\ \A i \in DOMAIN notification_logs :
                 (/\ notification_logs[i].status = "failed"
                  /\ notification_logs[i].retry_count < last_query.arg) =>
                     Cardinality({n \in DOMAIN rows : rows[n].id = notification_logs[i].id}) = 1
           /\ \A m, n \in DOMAIN rows : m < n => rows[m].sent_at <= rows[n].sent_at

\* C17 witness: of two failed entries the query returned the one below the
\* ceiling and left out the one that has reached it.
C17_Witness ==
    /\ last_query.op = "get_failed_notifications"
    /\ Len(last_query.rows) = 1
    /\ \E i \in DOMAIN notification_logs :
          /\ notification_logs[i].status = "failed"
          /\ notification_logs[i].retry_count = last_query.arg

\* C18: a sweep deletes every photo record past the retention window (its
\* file goes with it), keeps every newer record with its file as it was,
\* and leaves no session active whose expires_at has passed.
C18_SweepDeletesAgedDeactivatesExpired ==
    [][background_tasks =>
          /\ photo_rows' = SelectSeq(photo_rows, KeepNew)
          /\ \A i \in DOMAIN sessions' :
                sessions'[i].expired => ~sessions'[i].is_active]_vars

\* C20: the camera lock is free whenever no frame is being acquired or
\* encoded; in particular no thread holds it while its video-stream
\* generator is suspended at the yield, handing a frame to the client.
C20_LockFreeWhileSuspended ==
    \A t \in Threads : pc[t] = "gen_yield" => camera_lock # t

\* C21: a doorbell press whose capture met a device fault (camera opened,
\* reading a frame failed) gets a placeholder reference from the capture, not
\* the failure result, and once the request was answered 200 its event is in
\* the store.
C21_DeviceFaultDegradesToPlaceholder ==
    (rq.kind = "doorbell" /\ rq.device_fault) =>
        /\ rq.photo # "none"
        /\ rq.status = "200" =>
               \E i \in DOMAIN event_rows : event_rows[i].id = rq.event_id

\* C22: whoever reads system_state sees a home_mode and a last_activity
\* timestamp that were written by the same update.
C22_ModeAndTimestampFromSameUpdate ==
    /\ last_activity.by = last_write.by
    /\ last_activity.req = last_write.req

\* C29: a status update whose body is an object without wifi_strength stores
\* home_mode true, whatever the state before it and whoever wrote that state.
C29_NoFieldStoresHome ==
    (last_write.by = "signal" /\ last_write.body.kind = "nofield") =>
        (last_write.val = TRUE /\ home_mode = TRUE)
\* Such an update has replaced the away state of a manual override.
C29_Witness ==
    /\ last_write.by = "signal" /\ last_write.body.kind = "nofield"
    /\ last_write.prev_by = "override" /\ last_write.prev_val = FALSE
    /\ home_mode = TRUE

\* C23: is_quiet_hours returns true exactly when the time of the call lies
\* in the configured interval, both bounds included, the interval wrapping
\* midnight when its start is after its end; for every other time false.
C23_QuietExactlyInsideInterval ==
    last_query.op = "is_quiet_hours" =>
        (last_query.rows[1] <=> InQuietInterval(last_query.arg))
\* The call at 07:00 with the quiet hours 22:00 to 07:00 returned true.
C23_Witness ==
    /\ last_query.op = "is_quiet_hours"
    /\ user_preferences.notification_quiet_hours = DefaultQuietHours
    /\ last_query.arg = Minutes(7, 0)
    /\ last_query.rows[1] = TRUE

\* C24: no event record shows notification_sent (or processed) while the
\* channels of its alert have not been attempted yet, and a flag that is set
\* never changes again.
C24_FlagsSetOnceAfterDispatch ==
    [][/\ \A i \in DOMAIN events :
            (rq.kind = "alert" /\ rq.pc = "stored" /\ events[i].id = rq.event_id) =>
                (~events[i].notification_sent /\ ~events[i].processed)
       /\ \A i \in DOMAIN events :
            /\ events[i].notification_sent => events'[i].notification_sent
            /\ events[i].processed =>
                  (events'[i].processed
                   /\ events'[i].notification_sent = events[i].notification_sent)]_vars

\* The status transitions of a notification attempt.
AttemptTransitions ==
    {<<"pending", "sent">>, <<"pending", "failed">>, <<"failed", "retrying">>,
     <<"retrying", "sent">>, <<"retrying", "failed">>}

\* C25: whatever is called, the status of a log entry changes only along
\* pending->sent, pending->failed, failed->retrying, retrying->sent and
\* retrying->failed, and an entry that is failed with retry_count at the
\* ceiling changes no more.
C25_StatusFollowsTransitions ==
    [][\A i \in DOMAIN notification_logs :
          LET a == notification_logs[i]
              b == notification_logs'[i]
          IN /\ a.status # b.status => <<a.status, b.status>> \in AttemptTransitions
             /\ (a.status = "failed" /\ a.retry_count >= MaxRetryCount) => b = a]_vars

\* The old photo records whose file is gone, in a photos table.
FileGone(rows) == {i \in DOMAIN rows : rows[i].old /\ ~rows[i].file}

\* C26: a sweep in which the removal of one old photo raised has still
\* deleted every other old photo (at most the one record is left), and has
\* left no record behind whose file it removed.
C26_SweepErrorIsolated ==
    [][(background_tasks /\ last_query'.filter = "remove") =>
          /\ Cardinality({i \in DOMAIN photo_rows' : photo_rows'[i].old}) <= 1
          /\ Cardinality(FileGone(photo_rows')) <= Cardinality(FileGone(photo_rows))]_vars

\* C27: a motion or doorbell request that is rejected for its body (no JSON
\* object) has changed neither the events, nor the photo records, nor the
\* photo files on disk.
C27_RejectedRequestStoresNothing ==
    [][((motion_detected_begin \/ doorbell_pressed_capture) /\ rq'.fault = "body") =>
          /\ event_rows' = event_rows
          /\ photo_rows' = photo_rows
          /\ ~rq'.wrote]_vars

\* C28: in a request that was answered 200, the home_mode of the event
\* record, the home_mode the alert was decided on and phrased with, and the
\* home_mode of the response are one value.
C28_OneHomeModePerRequest ==
    (rq.kind \in {"motion", "doorbell"} /\ rq.status = "200") =>
        /\ rq.stored_hm = rq.alert_hm
        /\ rq.alert_hm = rq.resp_hm
        /\ rq.alerted => last_dispatch.home_mode = rq.stored_hm

\* The lock has been set and its time has passed.
LockExpired == user.locked_until # NoLock /\ clock >= user.locked_until

\* C30: the counter is set back to 0 and the lock cleared by a successful
\* authentication only; while locked_until is in the future no attempt
\* succeeds and none changes the counter; and once the lock has expired, a
\* wrong password locks the account again for thirty minutes.
C30_LockoutKeepsCounter ==
    [][/\ ((user'.failed_login_attempts = 0 /\ user.failed_login_attempts # 0)
           \/ (user'.locked_until = NoLock /\ user.locked_until # NoLock)) =>
             \E t \in Threads : reset_failed_attempts(t)
       /\ Locked =>
             /\ user'.failed_login_attempts = user.failed_login_attempts
             /\ ~\E t \in Threads : reset_failed_attempts(t)
       /\ \A t \in Threads :
             (increment_failed_attempts_update(t) /\ LockExpired) =>
                 user'.locked_until = clock + LockMinutes]_vars

====
